---- MODULE Spec2Model ----
(***************************************************************************)
(* Model of the unibilium safe wrapper: Term (src/src/term.rs), the        *)
(* capability accessors (boolean.rs, numeric.rs, string.rs), TermError     *)
(* (error.rs) and the older single-file revision of the wrapper (lib.rs).  *)
(* The native library (unibilium_sys) is the environment: its answers are  *)
(* chosen nondeterministically or read from small tables.                  *)
(***************************************************************************)
EXTENDS Integers, Sequences, FiniteSets, TLC

(* ------------------------------ bounds --------------------------------- *)
MaxTerms == 1
MaxVecs == 1
MaxVer == 2
MaxExt == 2
MaxNameLen == 2
MaxEscLen == 4
NumBooleans == 2
NumNumerics == 2
NumStrings == 3

(* ------------------------- options and bytes --------------------------- *)
None == [some |-> FALSE, text |-> <<>>]

Some(s) == [some |-> TRUE, text |-> s]

NULLH == 0

ESC == 27

(* bytes a terminal name is built from: NUL and the letter v *)
NameBytes == {0, 118}

(* bytes a capability text is built from: ESC \ x 1 b LF A and the two bytes of U+00E9 *)
EscBytes == {27, 92, 120, 49, 98, 10, 65, 195, 169}

RECURSIVE SeqsUpTo(_, _)
SeqsUpTo(S, n) ==
  IF n = 0 THEN {<<>>}
  ELSE LET shorter == SeqsUpTo(S, n - 1)
       IN  shorter \cup {Append(s, b) : s \in shorter, b \in S}

Contains(s, b) == \E i \in 1..Len(s) : s[i] = b

HasSub(s, pat) ==
  \E i \in 1..(Len(s) - Len(pat) + 1) : SubSeq(s, i, i + Len(pat) - 1) = pat

Names == SeqsUpTo(NameBytes, MaxNameLen)

(* ------------------------- UTF-8 validation ---------------------------- *)
IsCont(b, lo, hi) == b >= lo /\ b <= hi

Utf8Width(b) ==
  IF b < 128 THEN 1
  ELSE IF b >= 194 /\ b <= 223 THEN 2
  ELSE IF b >= 224 /\ b <= 239 THEN 3
  ELSE IF b >= 240 /\ b <= 244 THEN 4
  ELSE 0

Utf8SecondLo(b) == IF b = 224 THEN 160 ELSE IF b = 240 THEN 144 ELSE 128

Utf8SecondHi(b) == IF b = 237 THEN 159 ELSE IF b = 244 THEN 143 ELSE 191

RECURSIVE IsUtf8(_)
IsUtf8(s) ==
  IF Len(s) = 0 THEN TRUE
  ELSE LET w == Utf8Width(s[1])
       IN  /\ w > 0
           /\ Len(s) >= w
           /\ w >= 2 => IsCont(s[2], Utf8SecondLo(s[1]), Utf8SecondHi(s[1]))
           /\ \A i \in 3..w : IsCont(s[i], 128, 191)
           /\ IsUtf8(SubSeq(s, w + 1, Len(s)))

(* ------------------------- escaping helper ----------------------------- *)
HexDigit(n) == IF n < 10 THEN 48 + n ELSE 97 + (n - 10)

(* mutant: bytes outside ASCII pass through unescaped *)
M_escape_default(c) ==
  IF c = 9 THEN <<92, 116>>
  ELSE IF c = 13 THEN <<92, 114>>
  ELSE IF c = 10 THEN <<92, 110>>
  ELSE IF c = 39 THEN <<92, 39>>
  ELSE IF c = 34 THEN <<92, 34>>
  ELSE IF c = 92 THEN <<92, 92>>
  ELSE IF c >= 32 /\ c # 127 THEN <<c>>
  ELSE <<92, 120, HexDigit(c \div 16), HexDigit(c % 16)>>

escape_default(c) ==
  IF c = 9 THEN <<92, 116>>
  ELSE IF c = 13 THEN <<92, 114>>
  ELSE IF c = 10 THEN <<92, 110>>
  ELSE IF c = 39 THEN <<92, 39>>
  ELSE IF c = 34 THEN <<92, 34>>
  ELSE IF c = 92 THEN <<92, 92>>
  ELSE IF c >= 32 /\ c <= 126 THEN <<c>>
  ELSE <<92, 120, HexDigit(c \div 16), HexDigit(c % 16)>>

RECURSIVE FlatMapEscape(_)
FlatMapEscape(s) ==
  IF Len(s) = 0 THEN <<>>
  ELSE escape_default(s[1]) \o FlatMapEscape(Tail(s))

(* mutant: only the first occurrence is replaced *)
M_Replace(s, from, to) ==
  IF \E i \in 1..(Len(s) - Len(from) + 1) : SubSeq(s, i, i + Len(from) - 1) = from
  THEN LET i == CHOOSE j \in 1..(Len(s) - Len(from) + 1) :
                  /\ SubSeq(s, j, j + Len(from) - 1) = from
                  /\ \A k \in 1..(j - 1) : SubSeq(s, k, k + Len(from) - 1) # from
       IN  SubSeq(s, 1, i - 1) \o to \o SubSeq(s, i + Len(from), Len(s))
  ELSE s

(* str::replace: every non-overlapping match, left to right *)
RECURSIVE Replace(_, _, _)
Replace(s, from, to) ==
  IF Len(s) < Len(from) THEN s
  ELSE IF SubSeq(s, 1, Len(from)) = from
       THEN to \o Replace(SubSeq(s, Len(from) + 1, Len(s)), from, to)
       ELSE <<s[1]>> \o Replace(Tail(s), from, to)

HexEsc == <<92, 120, 49, 98>>

Caret == <<94, 91>>

(* result of escape_string: panicked is the expect() on String::from_utf8 *)
escape_string(s) ==
  IF ~s.some THEN [panicked |-> FALSE, out |-> None]
  ELSE LET bytes == FlatMapEscape(s.text)
       IN  IF ~IsUtf8(bytes) THEN [panicked |-> TRUE, out |-> None]
           ELSE [panicked |-> FALSE, out |-> Some(Replace(bytes, HexEsc, Caret))]

(* ------------------- capability identifier spaces ---------------------- *)
unibi_boolean_begin_ == 0

unibi_boolean_end_ == unibi_boolean_begin_ + NumBooleans + 1

unibi_numeric_begin_ == unibi_boolean_end_

unibi_numeric_end_ == unibi_numeric_begin_ + NumNumerics + 1

unibi_string_begin_ == unibi_numeric_end_

unibi_string_end_ == unibi_string_begin_ + NumStrings + 1

(* ------------------------------ state ---------------------------------- *)
VARIABLES
  heap,     \* native handles ever allocated: heap[h] = [ver, destroyed]
  terms,    \* Term values ever constructed: terms[id] = [term, live]
  vecs,     \* accessor collections alive: [term (id), kind, keys]
  ret,      \* what the last operation returned
  calls,    \* the native calls the last operation made, in order
  input,    \* the argument of the escaping helper (pure-function checks)
  prev      \* what the same Boolean or Numeric accessor answered before

vars == <<heap, terms, vecs, ret, calls, input, prev>>

(* the TERM environment variable: absent, not valid text, or a text *)
EnvValues ==
  {[k |-> "absent", v |-> <<>>], [k |-> "notunicode", v |-> <<>>]}
    \cup {[k |-> "text", v |-> n] : n \in {m \in Names : ~Contains(m, 0)}}

NoRet ==
  [op |-> "none", err |-> "none", name |-> <<>>, arg |-> <<>>, term |-> NULLH,
   kind |-> "none",
   key |-> 0, keys |-> <<>>, b |-> FALSE, n |-> 0, s |-> None]

NoArg == [k |-> "absent", v |-> <<>>]

Text(name) == [k |-> "text", v |-> name]

(* a native call: the function, its handle and key arguments, and for the  *)
(* two resolution functions the name they resolve and the handle returned  *)
Call(fn, h, key) == [fn |-> fn, h |-> h, key |-> key, arg |-> NoArg, r |-> NULLH]

ResolveCall(fn, arg, r) == [fn |-> fn, h |-> NULLH, key |-> 0, arg |-> arg, r |-> r]

Handles == 1..Len(heap)

(* the answers remembered in prev: those of Boolean::supported and         *)
(* Numeric::value, kept while only changes of the native description and   *)
(* the same call on the same accessor follow                               *)
IsQuery(r) ==
  \/ r.op = "supported" /\ r.kind = "Boolean"
  \/ r.op = "value" /\ r.kind = "Numeric"

SameCall(r, op, kind, key, h) ==
  IsQuery(r) /\ r.op = op /\ r.kind = kind /\ r.key = key /\ r.term = h

Forget == prev' = NoRet

Remember(op, kind, key, h) ==
  prev' = IF SameCall(ret, op, kind, key, h) THEN ret
          ELSE IF ret.op = "native_change" /\ SameCall(prev, op, kind, key, h) THEN prev
          ELSE NoRet

Changed == prev' = IF IsQuery(ret) THEN ret ELSE prev

LiveTerms == {id \in 1..Len(terms) : terms[id].live}

(* ---------------- the native library (unibilium_sys) ------------------- *)
(* The contents of a terminal description are a function of its version    *)
(* and of the key asked for; NativeChange moves a handle to another        *)
(* version.                                                                *)
KindOff(kind) ==
  IF kind \in {"Boolean", "ExtBoolean"} THEN 0
  ELSE IF kind \in {"Numeric", "ExtNumeric"} THEN 1
  ELSE 2

StrTable ==
  << None, Some(<<>>), Some(<<27, 91, 65>>), Some(<<92, 120, 49, 98>>),
     Some(<<195, 169>>), Some(<<195>>) >>

unibi_count_ext(kind, h) == (heap[h].ver + KindOff(kind)) % (MaxExt + 1)

unibi_name(kind, id) ==
  LET lo == IF kind = "Boolean" THEN unibi_boolean_begin_
            ELSE IF kind = "Numeric" THEN unibi_numeric_begin_
            ELSE unibi_string_begin_
      hi == IF kind = "Boolean" THEN unibi_boolean_end_
            ELSE IF kind = "Numeric" THEN unibi_numeric_end_
            ELSE unibi_string_end_
  IN  IF id > lo /\ id < hi THEN Some(<<97 + KindOff(kind), 48 + id>>) ELSE None

unibi_get_ext_name(kind, h, i) ==
  IF i < unibi_count_ext(kind, h)
  THEN Some(<<117, 97 + KindOff(kind), 48 + i>>)
  ELSE None

unibi_get_bool(h, key) == (heap[h].ver + key) % 2

unibi_get_num(h, key) == IF (heap[h].ver + key) % 3 = 0 THEN -1 ELSE 10 * heap[h].ver + key

unibi_get_str(h, key) == StrTable[((2 * heap[h].ver + key) % Len(StrTable)) + 1]

(* ------------------------------ Init ----------------------------------- *)
Init ==
  /\ heap = <<>>
  /\ terms = <<>>
  /\ vecs = {}
  /\ ret = NoRet
  /\ calls = <<>>
  /\ input = None
  /\ prev = NoRet

(* --------------------------- TermError --------------------------------- *)
from_name(name) == [err |-> "NotFound", name |-> name]

(* mutant: the value of TERM is dropped from the error *)
M_from_term_var(TERM) ==
  IF TERM.k = "notunicode" THEN [err |-> "NotUnicode", name |-> <<>>]
  ELSE [err |-> "NotFound", name |-> <<>>]

(* TERM is what std::env::var("TERM") finds in the process environment *)
from_term_var(TERM) ==
  IF TERM.k = "text" THEN from_name(TERM.v)
  ELSE IF TERM.k = "absent" THEN from_name(<<>>)
  ELSE [err |-> "NotUnicode", name |-> <<>>]

(* mutant: the interior NUL is not detected *)
M_CString_new_ok(name) == TRUE

(* CString::new fails on an interior NUL byte *)
CString_new_ok(name) == ~Contains(name, 0)

(* ------------------------ Term construction ---------------------------- *)
(* the native resolution: no handle, or a freshly allocated description *)
NativeResolve(h, ver) ==
  IF h = NULLH THEN heap' = heap
  ELSE /\ h = Len(heap) + 1
       /\ heap' = Append(heap, [ver |-> ver, destroyed |-> 0])

Failed(op, arg, e) ==
  /\ ret' = [NoRet EXCEPT !.op = op, !.arg = arg, !.err = e.err, !.name = e.name]
  /\ terms' = terms

Constructed(op, arg, h) ==
  /\ ret' = [NoRet EXCEPT !.op = op, !.arg = arg, !.term = h]
  /\ terms' = Append(terms, [term |-> h, live |-> TRUE])

from_env ==
  /\ Len(terms) < MaxTerms
  /\ \E TERM \in EnvValues, h \in {NULLH, Len(heap) + 1}, ver \in 0..MaxVer :
       /\ NativeResolve(h, ver)
       /\ calls' = <<ResolveCall("unibi_from_env", TERM, h)>>
       /\ IF h = NULLH THEN Failed("from_env", <<>>, from_term_var(TERM))
          ELSE Constructed("from_env", <<>>, h)
  /\ UNCHANGED <<vecs, input>> /\ Forget

from_term_name ==
  /\ Len(terms) < MaxTerms
  /\ \E name \in Names :
       IF ~CString_new_ok(name)
       THEN /\ Failed("from_term_name", name, from_name(name))
            /\ calls' = <<>>
            /\ heap' = heap
       ELSE \E h \in {NULLH, Len(heap) + 1}, ver \in 0..MaxVer :
              /\ NativeResolve(h, ver)
              /\ calls' = <<ResolveCall("unibi_from_term", Text(name), h)>>
              /\ IF h = NULLH THEN Failed("from_term_name", name, from_name(name))
                 ELSE Constructed("from_term_name", name, h)
  /\ UNCHANGED <<vecs, input>> /\ Forget

(* --------------------------- Drop for Term ----------------------------- *)
(* the native release frees the description: its contents are gone *)
unibi_destroy(h) ==
  IF h \in Handles
  THEN heap' = [heap EXCEPT ![h] = [ver |-> 0, destroyed |-> @.destroyed + 1]]
  ELSE heap' = heap

(* mutant: accessors hold no borrow of their Term *)
M_Borrowed(id) == FALSE

(* a Term is dropped only when nothing borrows it any more *)
Borrowed(id) == \E v \in vecs : v.term = id

(* mutant: the destructor does not release the handle *)
M_Drop ==
  \E id \in LiveTerms :
    /\ ~Borrowed(id)
    /\ heap' = heap
    /\ terms' = [terms EXCEPT ![id].live = FALSE]
    /\ calls' = <<>>
    /\ ret' = [NoRet EXCEPT !.op = "drop", !.term = terms[id].term]
    /\ UNCHANGED <<vecs, input>> /\ Forget

Drop ==
  \E id \in LiveTerms :
    /\ ~Borrowed(id)
    /\ unibi_destroy(terms[id].term)
    /\ terms' = [terms EXCEPT ![id].live = FALSE]
    /\ calls' = <<Call("unibi_destroy", terms[id].term, 0)>>
    /\ ret' = [NoRet EXCEPT !.op = "drop", !.term = terms[id].term]
    /\ UNCHANGED <<vecs, input>> /\ Forget

(* --------------------------- enumeration ------------------------------- *)
(* mutant: the range includes its end *)
RECURSIVE M_Range(_, _)
M_Range(first, end) ==
  IF first > end THEN <<>> ELSE <<first>> \o M_Range(first + 1, end)

(* for current in first..end { all.push(current) } *)
RECURSIVE Range(_, _)
Range(first, end) ==
  IF first >= end THEN <<>> ELSE <<first>> \o Range(first + 1, end)

(* the accessors returned are kept alive as one collection borrowing the Term *)
Returned(op, id, kind, keys) ==
  /\ vecs' = vecs \cup {[term |-> id, kind |-> kind, keys |-> keys]}
  /\ ret' = [NoRet EXCEPT !.op = op, !.term = terms[id].term, !.kind = kind, !.keys = keys]
  /\ UNCHANGED <<heap, terms, input>> /\ Forget

CanEnumerate(id) == id \in LiveTerms /\ Cardinality(vecs) < MaxVecs

booleans ==
  \E id \in 1..Len(terms) :
    /\ CanEnumerate(id)
    /\ LET first == unibi_boolean_begin_ + 1
           end == unibi_boolean_end_
       IN  Returned("booleans", id, "Boolean", Range(first, end))
    /\ calls' = <<>>

numerics ==
  \E id \in 1..Len(terms) :
    /\ CanEnumerate(id)
    /\ LET first == unibi_numeric_begin_ + 1
           end == unibi_numeric_end_
       IN  Returned("numerics", id, "Numeric", Range(first, end))
    /\ calls' = <<>>

strings ==
  \E id \in 1..Len(terms) :
    /\ CanEnumerate(id)
    /\ LET first == unibi_string_begin_ + 1
           end == unibi_string_end_
       IN  Returned("strings", id, "String", Range(first, end))
    /\ calls' = <<>>

(* mutant: the count of another capability kind is asked for *)
M_ext_booleans ==
  \E id \in 1..Len(terms) :
    /\ CanEnumerate(id)
    /\ LET end == unibi_count_ext("ExtNumeric", terms[id].term)
       IN  Returned("ext_booleans", id, "ExtBoolean", Range(0, end))
    /\ calls' = <<Call("unibi_count_ext_num", terms[id].term, 0)>>

ext_booleans ==
  \E id \in 1..Len(terms) :
    /\ CanEnumerate(id)
    /\ LET end == unibi_count_ext("ExtBoolean", terms[id].term)
       IN  Returned("ext_booleans", id, "ExtBoolean", Range(0, end))
    /\ calls' = <<Call("unibi_count_ext_bool", terms[id].term, 0)>>

ext_numerics ==
  \E id \in 1..Len(terms) :
    /\ CanEnumerate(id)
    /\ LET end == unibi_count_ext("ExtNumeric", terms[id].term)
       IN  Returned("ext_numerics", id, "ExtNumeric", Range(0, end))
    /\ calls' = <<Call("unibi_count_ext_num", terms[id].term, 0)>>

ext_strings ==
  \E id \in 1..Len(terms) :
    /\ CanEnumerate(id)
    /\ LET end == unibi_count_ext("ExtString", terms[id].term)
       IN  Returned("ext_strings", id, "ExtString", Range(0, end))
    /\ calls' = <<Call("unibi_count_ext_str", terms[id].term, 0)>>

(* the accessors of one collection go out of scope *)
DropVec ==
  \E v \in vecs :
    /\ vecs' = vecs \ {v}
    /\ ret' = [NoRet EXCEPT !.op = "drop_vec"]
    /\ calls' = <<>>
    /\ UNCHANGED <<heap, terms, input>> /\ Forget

(* the native description behind a live handle changes to its next version *)
NativeChange ==
  \E h \in Handles :
    /\ heap[h].destroyed = 0
    /\ heap' = [heap EXCEPT ![h].ver = (@ + 1) % (MaxVer + 1)]
    /\ ret' = [NoRet EXCEPT !.op = "native_change"]
    /\ calls' = <<>>
    /\ UNCHANGED <<terms, vecs, input>> /\ Changed

(* ----------------------- accessor methods ------------------------------ *)
(* CStr::to_str().expect(..): the text, or the fatal path on invalid UTF-8 *)
to_str(bytes) ==
  IF IsUtf8(bytes) THEN [panicked |-> FALSE, out |-> Some(bytes)]
  ELSE [panicked |-> TRUE, out |-> None]

(* mutant: a null name is answered with an empty name *)
M_name_of(native) ==
  IF ~native.some THEN [panicked |-> FALSE, out |-> Some(<<>>)] ELSE to_str(native.text)

(* name(): a null name is the fatal invalid-key path *)
name_of(native) ==
  IF ~native.some THEN [panicked |-> TRUE, out |-> None] ELSE to_str(native.text)

(* mutant: an empty string is reported as absent *)
M_value_of(native) ==
  IF ~native.some \/ native.text = <<>> THEN [panicked |-> FALSE, out |-> None]
  ELSE to_str(native.text)

(* value() of String and ExtString *)
value_of(native) ==
  IF ~native.some THEN [panicked |-> FALSE, out |-> None] ELSE to_str(native.text)

(* escaped_value(): escape_string(self.value()) *)
escaped_value_of(native) ==
  LET value == value_of(native)
  IN  IF value.panicked THEN value ELSE escape_string(value.out)

unibi_get_ext_bool(h, i) == IF i < unibi_count_ext("ExtBoolean", h) THEN unibi_get_bool(h, i) ELSE 0

unibi_get_ext_num(h, i) == IF i < unibi_count_ext("ExtNumeric", h) THEN unibi_get_num(h, i) ELSE -1

unibi_get_ext_str(h, i) == IF i < unibi_count_ext("ExtString", h) THEN unibi_get_str(h, i) ELSE None

(* the handle an accessor reads through its Term reference *)
unibi_term(v) == terms[v.term].term

Accessors(kind) == {a \in vecs \X (0..(MaxExt + NumStrings)) :
                      a[1].kind = kind /\ a[2] \in 1..Len(a[1].keys)}

Answered(op, v, key, r) ==
  /\ ret' = [r EXCEPT !.op = op, !.kind = v.kind, !.key = key, !.term = unibi_term(v)]
  /\ UNCHANGED <<heap, terms, vecs, input>>
  /\ Remember(op, v.kind, key, unibi_term(v))

TextRet(res, field) ==
  IF res.panicked THEN [NoRet EXCEPT !.err = "panic"]
  ELSE IF field = "name" THEN [NoRet EXCEPT !.name = res.out.text]
  ELSE [NoRet EXCEPT !.s = res.out]

Boolean_name ==
  \E a \in Accessors("Boolean") :
    LET v == a[1]  key == v.keys[a[2]]
    IN  /\ Answered("name", v, key, TextRet(name_of(unibi_name("Boolean", key)), "name"))
        /\ calls' = <<Call("unibi_name_bool", NULLH, key)>>

Boolean_supported ==
  \E a \in Accessors("Boolean") :
    LET v == a[1]  key == v.keys[a[2]]
        result == unibi_get_bool(unibi_term(v), key)
    IN  /\ Answered("supported", v, key, [NoRet EXCEPT !.b = result > 0])
        /\ calls' = <<Call("unibi_get_bool", unibi_term(v), key)>>

ExtBoolean_name ==
  \E a \in Accessors("ExtBoolean") :
    LET v == a[1]  index == v.keys[a[2]]
        name == unibi_get_ext_name("ExtBoolean", unibi_term(v), index)
    IN  /\ Answered("name", v, index, TextRet(name_of(name), "name"))
        /\ calls' = <<Call("unibi_get_ext_bool_name", unibi_term(v), index)>>

ExtBoolean_supported ==
  \E a \in Accessors("ExtBoolean") :
    LET v == a[1]  index == v.keys[a[2]]
        result == unibi_get_ext_bool(unibi_term(v), index)
    IN  /\ Answered("supported", v, index, [NoRet EXCEPT !.b = result > 0])
        /\ calls' = <<Call("unibi_get_ext_bool", unibi_term(v), index)>>

Numeric_name ==
  \E a \in Accessors("Numeric") :
    LET v == a[1]  key == v.keys[a[2]]
    IN  /\ Answered("name", v, key, TextRet(name_of(unibi_name("Numeric", key)), "name"))
        /\ calls' = <<Call("unibi_name_num", NULLH, key)>>

(* mutant: the accessor keeps the value it answered and answers it again *)
M_Numeric_value ==
  \E a \in Accessors("Numeric") :
    LET v == a[1]  key == v.keys[a[2]]  h == unibi_term(v)
        last == IF SameCall(ret, "value", "Numeric", key, h) THEN ret ELSE prev
        kept == SameCall(last, "value", "Numeric", key, h)
    IN  /\ Answered("value", v, key,
                    [NoRet EXCEPT !.n = IF kept THEN last.n ELSE unibi_get_num(h, key)])
        /\ calls' = IF kept THEN <<>> ELSE <<Call("unibi_get_num", h, key)>>

Numeric_value ==
  \E a \in Accessors("Numeric") :
    LET v == a[1]  key == v.keys[a[2]]
    IN  /\ Answered("value", v, key, [NoRet EXCEPT !.n = unibi_get_num(unibi_term(v), key)])
        /\ calls' = <<Call("unibi_get_num", unibi_term(v), key)>>

ExtNumeric_name ==
  \E a \in Accessors("ExtNumeric") :
    LET v == a[1]  index == v.keys[a[2]]
        name == unibi_get_ext_name("ExtNumeric", unibi_term(v), index)
    IN  /\ Answered("name", v, index, TextRet(name_of(name), "name"))
        /\ calls' = <<Call("unibi_get_ext_num_name", unibi_term(v), index)>>

ExtNumeric_value ==
  \E a \in Accessors("ExtNumeric") :
    LET v == a[1]  index == v.keys[a[2]]
    IN  /\ Answered("value", v, index,
                    [NoRet EXCEPT !.n = unibi_get_ext_num(unibi_term(v), index)])
        /\ calls' = <<Call("unibi_get_ext_num", unibi_term(v), index)>>

String_name ==
  \E a \in Accessors("String") :
    LET v == a[1]  key == v.keys[a[2]]
    IN  /\ Answered("name", v, key, TextRet(name_of(unibi_name("String", key)), "name"))
        /\ calls' = <<Call("unibi_name_str", NULLH, key)>>

String_value ==
  \E a \in Accessors("String") :
    LET v == a[1]  key == v.keys[a[2]]
        value == unibi_get_str(unibi_term(v), key)
    IN  /\ Answered("value", v, key, TextRet(value_of(value), "value"))
        /\ calls' = <<Call("unibi_get_str", unibi_term(v), key)>>

String_escaped_value ==
  \E a \in Accessors("String") :
    LET v == a[1]  key == v.keys[a[2]]
        value == unibi_get_str(unibi_term(v), key)
    IN  /\ Answered("escaped_value", v, key, TextRet(escaped_value_of(value), "value"))
        /\ calls' = <<Call("unibi_get_str", unibi_term(v), key)>>

ExtString_name ==
  \E a \in Accessors("ExtString") :
    LET v == a[1]  index == v.keys[a[2]]
        name == unibi_get_ext_name("ExtString", unibi_term(v), index)
    IN  /\ Answered("name", v, index, TextRet(name_of(name), "name"))
        /\ calls' = <<Call("unibi_get_ext_str_name", unibi_term(v), index)>>

ExtString_value ==
  \E a \in Accessors("ExtString") :
    LET v == a[1]  index == v.keys[a[2]]
        value == unibi_get_ext_str(unibi_term(v), index)
    IN  /\ Answered("value", v, index, TextRet(value_of(value), "value"))
        /\ calls' = <<Call("unibi_get_ext_str", unibi_term(v), index)>>

ExtString_escaped_value ==
  \E a \in Accessors("ExtString") :
    LET v == a[1]  index == v.keys[a[2]]
        value == unibi_get_ext_str(unibi_term(v), index)
    IN  /\ Answered("escaped_value", v, index, TextRet(escaped_value_of(value), "value"))
        /\ calls' = <<Call("unibi_get_ext_str", unibi_term(v), index)>>

(* ------------------------------ Display -------------------------------- *)
Sep == <<58, 32>>

NullText == <<78, 85, 76, 76>>

(* Display of bool *)
fmt_bool(b) == IF b THEN <<116, 114, 117, 101>> ELSE <<102, 97, 108, 115, 101>>

(* Display of i32: decimal digits, a minus sign before a negative number *)
RECURSIVE fmt_u(_)
fmt_u(n) == IF n < 10 THEN <<48 + n>> ELSE Append(fmt_u(n \div 10), 48 + (n % 10))

fmt_i32(n) == IF n < 0 THEN <<45>> \o fmt_u(-n) ELSE fmt_u(n)

(* write!(f, "{}: {}", self.name(), value) *)
write_pair(name, value) ==
  IF name.panicked THEN [panicked |-> TRUE, out |-> None]
  ELSE [panicked |-> FALSE, out |-> Some(name.out.text \o Sep \o value)]

(* mutant: an absent string is written as an empty text *)
M_fmt_string(escaped, name) ==
  IF escaped.panicked THEN [panicked |-> TRUE, out |-> None]
  ELSE IF ~escaped.out.some THEN write_pair(name, <<>>)
  ELSE write_pair(name, escaped.out.text)

(* match self.escaped_value() { None => "{}: NULL", Some(value) => "{}: {}" } *)
fmt_string(escaped, name) ==
  IF escaped.panicked THEN [panicked |-> TRUE, out |-> None]
  ELSE IF ~escaped.out.some THEN write_pair(name, NullText)
  ELSE write_pair(name, escaped.out.text)

(* the native calls of a formatting: the second is not made when the first panics *)
FmtCalls(first, res, second) == IF res.panicked THEN <<first>> ELSE <<first, second>>

Boolean_fmt ==
  \E a \in Accessors("Boolean") :
    LET v == a[1]  key == v.keys[a[2]]  h == unibi_term(v)
        name == name_of(unibi_name("Boolean", key))
    IN  /\ Answered("fmt", v, key,
                    TextRet(write_pair(name, fmt_bool(unibi_get_bool(h, key) > 0)), "value"))
        /\ calls' = FmtCalls(Call("unibi_name_bool", NULLH, key), name,
                             Call("unibi_get_bool", h, key))

ExtBoolean_fmt ==
  \E a \in Accessors("ExtBoolean") :
    LET v == a[1]  index == v.keys[a[2]]  h == unibi_term(v)
        name == name_of(unibi_get_ext_name("ExtBoolean", h, index))
    IN  /\ Answered("fmt", v, index,
                    TextRet(write_pair(name, fmt_bool(unibi_get_ext_bool(h, index) > 0)),
                            "value"))
        /\ calls' = FmtCalls(Call("unibi_get_ext_bool_name", h, index), name,
                             Call("unibi_get_ext_bool", h, index))

Numeric_fmt ==
  \E a \in Accessors("Numeric") :
    LET v == a[1]  key == v.keys[a[2]]  h == unibi_term(v)
        name == name_of(unibi_name("Numeric", key))
    IN  /\ Answered("fmt", v, key,
                    TextRet(write_pair(name, fmt_i32(unibi_get_num(h, key))), "value"))
        /\ calls' = FmtCalls(Call("unibi_name_num", NULLH, key), name,
                             Call("unibi_get_num", h, key))

ExtNumeric_fmt ==
  \E a \in Accessors("ExtNumeric") :
    LET v == a[1]  index == v.keys[a[2]]  h == unibi_term(v)
        name == name_of(unibi_get_ext_name("ExtNumeric", h, index))
    IN  /\ Answered("fmt", v, index,
                    TextRet(write_pair(name, fmt_i32(unibi_get_ext_num(h, index))), "value"))
        /\ calls' = FmtCalls(Call("unibi_get_ext_num_name", h, index), name,
                             Call("unibi_get_ext_num", h, index))

String_fmt ==
  \E a \in Accessors("String") :
    LET v == a[1]  key == v.keys[a[2]]  h == unibi_term(v)
        escaped == escaped_value_of(unibi_get_str(h, key))
        name == name_of(unibi_name("String", key))
    IN  /\ Answered("fmt", v, key, TextRet(fmt_string(escaped, name), "value"))
        /\ calls' = FmtCalls(Call("unibi_get_str", h, key), escaped,
                             Call("unibi_name_str", NULLH, key))

ExtString_fmt ==
  \E a \in Accessors("ExtString") :
    LET v == a[1]  index == v.keys[a[2]]  h == unibi_term(v)
        escaped == escaped_value_of(unibi_get_ext_str(h, index))
        name == name_of(unibi_get_ext_name("ExtString", h, index))
    IN  /\ Answered("fmt", v, index, TextRet(fmt_string(escaped, name), "value"))
        /\ calls' = FmtCalls(Call("unibi_get_ext_str", h, index), escaped,
                             Call("unibi_get_ext_str_name", h, index))

(* ------------------------- specification ------------------------------- *)
Next ==
  \/ from_env
  \/ from_term_name
  \/ Drop
  \/ DropVec
  \/ NativeChange
  \/ booleans
  \/ numerics
  \/ strings
  \/ ext_booleans
  \/ ext_numerics
  \/ ext_strings
  \/ Boolean_name
  \/ Boolean_supported
  \/ ExtBoolean_name
  \/ ExtBoolean_supported
  \/ Numeric_name
  \/ Numeric_value
  \/ ExtNumeric_name
  \/ ExtNumeric_value
  \/ String_name
  \/ String_value
  \/ String_escaped_value
  \/ ExtString_name
  \/ ExtString_value
  \/ ExtString_escaped_value
  \/ Boolean_fmt
  \/ ExtBoolean_fmt
  \/ Numeric_fmt
  \/ ExtNumeric_fmt
  \/ String_fmt
  \/ ExtString_fmt

Spec == Init /\ [][Next]_vars

(* ----------------- the escaping helper on its own ---------------------- *)
(* every text (valid UTF-8) over EscBytes up to MaxEscLen, and no text *)
EscInputs == {None} \cup {Some(s) : s \in {x \in SeqsUpTo(EscBytes, MaxEscLen) : IsUtf8(x)}}

InitEsc ==
  /\ heap = <<>>
  /\ terms = <<>>
  /\ vecs = {}
  /\ ret = NoRet
  /\ calls = <<>>
  /\ input \in EscInputs
  /\ prev = NoRet

Escape ==
  /\ ret.op = "none"
  /\ ret' = [TextRet(escape_string(input), "value") EXCEPT !.op = "escape_string"]
  /\ UNCHANGED <<heap, terms, vecs, calls, input, prev>>

NextEsc == Escape

EscSpec == InitEsc /\ [][NextEsc]_vars

(* ------------- the single-file revision of the wrapper ----------------- *)
(* lib.rs: both constructors wrap whatever the native resolution returned *)
lib_from_env ==
  /\ Len(terms) < MaxTerms
  /\ \E TERM \in EnvValues, h \in {NULLH, Len(heap) + 1}, ver \in 0..MaxVer :
       /\ NativeResolve(h, ver)
       /\ calls' = <<ResolveCall("unibi_from_env", TERM, h)>>
       /\ Constructed("from_env", <<>>, h)
  /\ UNCHANGED <<vecs, input>> /\ Forget

lib_from_term_name ==
  /\ Len(terms) < MaxTerms
  /\ \E name \in Names, h \in {NULLH, Len(heap) + 1}, ver \in 0..MaxVer :
       /\ NativeResolve(h, ver)
       /\ calls' = <<ResolveCall("unibi_from_term", Text(name), h)>>
       /\ Constructed("from_term_name", name, h)
  /\ UNCHANGED <<vecs, input>> /\ Forget

(* lib.rs reads a value through a handle that may be null: the native      *)
(* library then dereferences a null pointer, which may crash or yield any  *)
(* value                                                                   *)
lib_Boolean_supported ==
  \E a \in Accessors("Boolean") :
    LET v == a[1]  key == v.keys[a[2]]  h == unibi_term(v)
    IN  /\ calls' = <<Call("unibi_get_bool", h, key)>>
        /\ IF h # NULLH
           THEN Answered("supported", v, key, [NoRet EXCEPT !.b = unibi_get_bool(h, key) > 0])
           ELSE \E crash \in BOOLEAN, b \in BOOLEAN :
                  Answered("supported", v, key,
                           IF crash THEN [NoRet EXCEPT !.err = "crash"]
                           ELSE [NoRet EXCEPT !.b = b])

lib_Numeric_value ==
  \E a \in Accessors("Numeric") :
    LET v == a[1]  key == v.keys[a[2]]  h == unibi_term(v)
    IN  /\ calls' = <<Call("unibi_get_num", h, key)>>
        /\ IF h # NULLH
           THEN Answered("value", v, key, [NoRet EXCEPT !.n = unibi_get_num(h, key)])
           ELSE \E crash \in BOOLEAN, n \in {-1, 0} :
                  Answered("value", v, key,
                           IF crash THEN [NoRet EXCEPT !.err = "crash"]
                           ELSE [NoRet EXCEPT !.n = n])

NextLib ==
  \/ lib_from_env
  \/ lib_from_term_name
  \/ Drop
  \/ DropVec
  \/ booleans
  \/ numerics
  \/ strings
  \/ Boolean_name
  \/ Numeric_name
  \/ String_name
  \/ lib_Boolean_supported
  \/ lib_Numeric_value

SpecLib == Init /\ [][NextLib]_vars

(* =========================== the claims ================================ *)

(* C1: from_term_name(name) fails with NotFound carrying exactly the given *)
(* name when the name has an embedded NUL (the native resolution is then   *)
(* never called, and nothing panics) and when the native resolution        *)
(* returns a null handle; otherwise it returns a Term owning the handle    *)
(* the native resolution returned.                                         *)
C1_FromTermName ==
  ret.op = "from_term_name" =>
    IF Contains(ret.arg, 0)
    THEN ret.err = "NotFound" /\ ret.name = ret.arg /\ calls = <<>>
    ELSE /\ Len(calls) = 1
         /\ calls[1].fn = "unibi_from_term"
         /\ calls[1].arg = Text(ret.arg)
         /\ IF calls[1].r = NULLH
            THEN ret.err = "NotFound" /\ ret.name = ret.arg
            ELSE /\ ret.err = "none"
                 /\ ret.term = calls[1].r
                 /\ Len(terms) > 0
                 /\ terms[Len(terms)] = [term |-> calls[1].r, live |-> TRUE]

C1_Witness ==
  /\ ret.op = "from_term_name"
  /\ Contains(ret.arg, 0)
  /\ Len(ret.arg) > 1
  /\ ret.err = "NotFound"
  /\ ret.name = ret.arg

(* C2: from_env() fails with NotUnicode whenever TERM is not valid text,   *)
(* whatever the native resolution returns for it.                          *)
C2_NotUnicodeAlways ==
  (ret.op = "from_env" /\ calls[1].arg.k = "notunicode") => ret.err = "NotUnicode"

(* C3: when the native resolve-by-environment returns no handle and TERM   *)
(* is valid text or absent, from_env() fails with NotFound(name), name     *)
(* being the TERM value the resolution used, empty when TERM is absent.    *)
C3_NotFoundFromEnv ==
  (/\ ret.op = "from_env"
   /\ calls[1].r = NULLH
   /\ calls[1].arg.k \in {"text", "absent"})
  => /\ ret.err = "NotFound"
     /\ ret.name = (IF calls[1].arg.k = "absent" THEN <<>> ELSE calls[1].arg.v)

C3_Witness ==
  /\ ret.op = "from_env"
  /\ calls[1].r = NULLH
  /\ calls[1].arg.k = "text"
  /\ Len(calls[1].arg.v) > 0
  /\ ret.name = calls[1].arg.v

(* C4: the native release is called exactly once for each handle a         *)
(* successful resolution returned, at the destruction of the Term owning   *)
(* it: never twice, never left out once the Term is destroyed, and never   *)
(* by a failed resolution or by any operation other than the destructor.   *)
C4_ReleasedExactlyOnce ==
  /\ \A h \in Handles :
       /\ Cardinality({id \in 1..Len(terms) : terms[id].term = h}) = 1
       /\ heap[h].destroyed =
            (IF \E id \in LiveTerms : terms[id].term = h THEN 0 ELSE 1)
  /\ \A i \in 1..Len(calls) :
       calls[i].fn = "unibi_destroy" =>
         /\ ret.op = "drop"
         /\ Len(calls) = 1
         /\ calls[i].h = ret.term
         /\ calls[i].h \in Handles
  /\ ret.op = "drop" => Len(calls) = 1 /\ calls[1].fn = "unibi_destroy"
  /\ ret.err \in {"NotFound", "NotUnicode"} =>
       /\ \A i \in 1..Len(calls) : calls[i].fn # "unibi_destroy"
       /\ \A h \in Handles : \E id \in 1..Len(terms) : terms[id].term = h

C4_Witness ==
  /\ ret.op = "drop"
  /\ \E h \in Handles : heap[h].destroyed = 1 /\ calls = <<Call("unibi_destroy", h, 0)>>

(* C5: no native query is issued on a released handle: every call that     *)
(* takes a handle, other than the release itself, is made on a handle not  *)
(* yet released, and every live accessor borrows a live Term.              *)
C5_NoQueryAfterRelease ==
  /\ \A i \in 1..Len(calls) :
       (calls[i].h # NULLH /\ calls[i].fn # "unibi_destroy") =>
         /\ calls[i].h \in Handles
         /\ heap[calls[i].h].destroyed = 0
  /\ \A v \in vecs : terms[v.term].live /\ heap[terms[v.term].term].destroyed = 0

C5_Witness ==
  /\ ret.op = "value"
  /\ Len(calls) = 1
  /\ calls[1].h \in Handles
  /\ \E v \in vecs : terms[v.term].term = calls[1].h

(* C6: every Term holds a non-null native handle, so the native release is *)
(* never called with a null handle.                                        *)
C6_NonNullHandle ==
  /\ \A id \in 1..Len(terms) : terms[id].term # NULLH
  /\ \A i \in 1..Len(calls) : calls[i].fn = "unibi_destroy" => calls[i].h # NULLH

(* C7: booleans() returns the identifiers begin+1, ..., end-1 of the       *)
(* boolean enumeration in ascending order, without either sentinel, and    *)
(* asks the handle nothing, so the result is the same at every call;       *)
(* numerics() and strings() do the same for their enumerations.            *)
Between(begin, end) == [i \in 1..(end - begin - 1) |-> begin + i]

C7_FixedEnumeration ==
  /\ ret.op = "booleans" =>
       ret.keys = Between(unibi_boolean_begin_, unibi_boolean_end_) /\ calls = <<>>
  /\ ret.op = "numerics" =>
       ret.keys = Between(unibi_numeric_begin_, unibi_numeric_end_) /\ calls = <<>>
  /\ ret.op = "strings" =>
       ret.keys = Between(unibi_string_begin_, unibi_string_end_) /\ calls = <<>>
  /\ \A v \in vecs :
       /\ v.kind = "Boolean" => v.keys = Between(unibi_boolean_begin_, unibi_boolean_end_)
       /\ v.kind = "Numeric" => v.keys = Between(unibi_numeric_begin_, unibi_numeric_end_)
       /\ v.kind = "String" => v.keys = Between(unibi_string_begin_, unibi_string_end_)

C7_Witness ==
  /\ ret.op = "booleans"
  /\ Len(ret.keys) = NumBooleans
  /\ Len(ret.keys) >= 2
  /\ ret.keys[1] = unibi_boolean_begin_ + 1
  /\ ret.keys[Len(ret.keys)] = unibi_boolean_end_ - 1
  /\ heap[ret.term].ver > 0

(* C8: each call of ext_booleans(), ext_numerics() and ext_strings() asks  *)
(* the handle once for its extended count of that kind and returns the     *)
(* indices 0, ..., count-1 of the count the handle has at that call, in    *)
(* ascending order; a count of zero gives an empty sequence.               *)
UpTo(count) == [i \in 1..count |-> i - 1]

C8_ExtEnumeration ==
  /\ ret.op = "ext_booleans" =>
       /\ calls = <<Call("unibi_count_ext_bool", ret.term, 0)>>
       /\ ret.keys = UpTo(unibi_count_ext("ExtBoolean", ret.term))
  /\ ret.op = "ext_numerics" =>
       /\ calls = <<Call("unibi_count_ext_num", ret.term, 0)>>
       /\ ret.keys = UpTo(unibi_count_ext("ExtNumeric", ret.term))
  /\ ret.op = "ext_strings" =>
       /\ calls = <<Call("unibi_count_ext_str", ret.term, 0)>>
       /\ ret.keys = UpTo(unibi_count_ext("ExtString", ret.term))

C8_Witness ==
  /\ ret.op = "ext_booleans"
  /\ ret.keys = <<0, 1>>
  /\ unibi_count_ext("ExtNumeric", ret.term) = 0

(* C9: value() of String and ExtString is absent exactly when the native   *)
(* value query returns null and is the native text otherwise, an empty     *)
(* string being present and empty; escaped_value() is absent exactly when  *)
(* value() is absent.  The only other outcome is the fatal path on a       *)
(* native string that is not valid UTF-8.                                  *)
NativeStr(kind, h, key) ==
  IF kind = "String" THEN unibi_get_str(h, key) ELSE unibi_get_ext_str(h, key)

C9_ValueAbsentIffNull ==
  (ret.op \in {"value", "escaped_value"} /\ ret.kind \in {"String", "ExtString"}) =>
    LET native == NativeStr(ret.kind, ret.term, ret.key)
    IN  /\ ret.err \in {"none", "panic"}
        /\ ret.err = "panic" <=> (native.some /\ ~IsUtf8(native.text))
        /\ ret.err = "none" =>
             /\ ret.s.some <=> native.some
             /\ (ret.op = "value" /\ native.some) => ret.s.text = native.text

C9_Witness ==
  /\ ret.op = "value"
  /\ ret.kind = "String"
  /\ NativeStr(ret.kind, ret.term, ret.key) = Some(<<>>)
  /\ ret.s = Some(<<>>)

(* C10: the escaped form of a text never contains the four characters      *)
(* \x1b, and the escaped form of a text that contains the ESC byte         *)
(* contains the two characters ^[.                                         *)
C10_NoHexEsc ==
  (ret.op = "escape_string" /\ input.some) =>
    /\ ret.err = "none"
    /\ ret.s.some
    /\ ~HasSub(ret.s.text, HexEsc)
    /\ Contains(input.text, ESC) => HasSub(ret.s.text, Caret)

C10_Witness ==
  /\ ret.op = "escape_string"
  /\ input = Some(<<92, ESC, ESC>>)
  /\ ret.s = Some(<<92, 92>> \o Caret \o Caret)

(* C11: the escaped form is the concatenation, in input order, of the      *)
(* default ASCII escape of each byte, the ESC byte and only the ESC byte   *)
(* being rendered as ^[; a text without ESC gets no ^[ from the escaping.  *)
RECURSIVE ByteByByte(_)
ByteByByte(s) ==
  IF Len(s) = 0 THEN <<>>
  ELSE (IF s[1] = ESC THEN Caret ELSE escape_default(s[1])) \o ByteByByte(Tail(s))

C11_ByteByByte ==
  (ret.op = "escape_string" /\ input.some) =>
    /\ ret.err = "none"
    /\ ret.s = Some(ByteByByte(input.text))

(* C13: every byte of the escaped form is printable ASCII, so the          *)
(* conversion of the escaped bytes to text never takes its fatal path.     *)
C13_PrintableAscii ==
  (ret.op = "escape_string" /\ input.some) =>
    /\ ret.err = "none"
    /\ ret.s.some
    /\ \A i \in 1..Len(ret.s.text) : ret.s.text[i] >= 32 /\ ret.s.text[i] <= 126
    /\ \A i \in 1..Len(FlatMapEscape(input.text)) :
         FlatMapEscape(input.text)[i] >= 32 /\ FlatMapEscape(input.text)[i] <= 126

C13_Witness ==
  /\ ret.op = "escape_string"
  /\ input = Some(<<10, 195, 169, ESC>>)
  /\ ret.s = Some(<<92, 110, 92, 120, 99, 51, 92, 120, 97, 57>> \o Caret)

(* C12: formatting an accessor yields its name, then ': ', then its value: *)
(* what supported()/value() returns for the boolean and numeric kinds; for *)
(* String and ExtString the text NULL when value() is absent and, when it  *)
(* is present, the value (as claimed) or the escaped value (as amended).   *)
NativeName(kind, h, key) ==
  IF kind \in {"Boolean", "Numeric", "String"} THEN unibi_name(kind, key)
  ELSE unibi_get_ext_name(kind, h, key)

(* the text that follows the name and ': ' in a formatted accessor *)
AfterName(text, name) == SubSeq(text, Len(name) + Len(Sep) + 1, Len(text))

StartsWithName(text, name) ==
  /\ Len(text) >= Len(name) + Len(Sep)
  /\ SubSeq(text, 1, Len(name)) = name
  /\ SubSeq(text, Len(name) + 1, Len(name) + Len(Sep)) = <<58, 32>>

RECURSIVE ParseDigits(_)
ParseDigits(s) ==
  IF Len(s) = 0 THEN 0
  ELSE 10 * ParseDigits(SubSeq(s, 1, Len(s) - 1)) + (s[Len(s)] - 48)

IsDecimal(s) ==
  LET digits == IF Len(s) > 0 /\ s[1] = 45 THEN Tail(s) ELSE s
  IN  /\ Len(digits) > 0
      /\ \A i \in 1..Len(digits) : digits[i] >= 48 /\ digits[i] <= 57
      /\ Len(digits) > 1 => digits[1] # 48

ParseDecimal(s) ==
  IF s[1] = 45 THEN 0 - ParseDigits(Tail(s)) ELSE ParseDigits(s)

Formatted == ret.op = "fmt" /\ ret.err = "none"

C12_NameThenValue ==
  Formatted =>
    LET name == NativeName(ret.kind, ret.term, ret.key).text
        rest == AfterName(ret.s.text, name)
    IN  /\ ret.s.some
        /\ StartsWithName(ret.s.text, name)
        /\ ret.kind = "Boolean" =>
             rest = (IF unibi_get_bool(ret.term, ret.key) > 0
                     THEN <<116, 114, 117, 101>> ELSE <<102, 97, 108, 115, 101>>)
        /\ ret.kind = "ExtBoolean" =>
             rest = (IF unibi_get_ext_bool(ret.term, ret.key) > 0
                     THEN <<116, 114, 117, 101>> ELSE <<102, 97, 108, 115, 101>>)
        /\ ret.kind = "Numeric" =>
             IsDecimal(rest) /\ ParseDecimal(rest) = unibi_get_num(ret.term, ret.key)
        /\ ret.kind = "ExtNumeric" =>
             IsDecimal(rest) /\ ParseDecimal(rest) = unibi_get_ext_num(ret.term, ret.key)

(* the claim as stated: a present string is written as it is *)
C12_StringAsIs ==
  /\ C12_NameThenValue
  /\ (Formatted /\ ret.kind \in {"String", "ExtString"}) =>
       LET name == NativeName(ret.kind, ret.term, ret.key).text
           value == NativeStr(ret.kind, ret.term, ret.key)
       IN  AfterName(ret.s.text, name) = (IF value.some THEN value.text ELSE <<78, 85, 76, 76>>)

(* the claim as amended: a present string is written escaped *)
C12_StringEscaped ==
  /\ C12_NameThenValue
  /\ (Formatted /\ ret.kind \in {"String", "ExtString"}) =>
       LET name == NativeName(ret.kind, ret.term, ret.key).text
           value == NativeStr(ret.kind, ret.term, ret.key)
       IN  AfterName(ret.s.text, name) =
             (IF value.some THEN Replace(FlatMapEscape(value.text), HexEsc, Caret)
              ELSE <<78, 85, 76, 76>>)

C12_Witness ==
  /\ Formatted
  /\ ret.kind = "String"
  /\ NativeStr(ret.kind, ret.term, ret.key) = Some(<<ESC, 91, 65>>)
  /\ AfterName(ret.s.text, NativeName(ret.kind, ret.term, ret.key).text) = <<94, 91, 91, 65>>

(* ----------------------------------------------------------------------- *)
(* C14: accessors hold only their key and a reference to the Term, and     *)
(* keep no copy of a name or value: every name(), value() or supported()   *)
(* makes exactly one native query with the accessor's key, and what it     *)
(* returns is what the handle holds at the time of the call.  So when the  *)
(* handle changed between two calls on the same accessor the second call   *)
(* returns the new value.                                                  *)
QueryFn(op, kind) ==
  IF op = "name" THEN
    (IF kind = "Boolean" THEN "unibi_name_bool"
     ELSE IF kind = "Numeric" THEN "unibi_name_num"
     ELSE IF kind = "String" THEN "unibi_name_str"
     ELSE IF kind = "ExtBoolean" THEN "unibi_get_ext_bool_name"
     ELSE IF kind = "ExtNumeric" THEN "unibi_get_ext_num_name"
     ELSE "unibi_get_ext_str_name")
  ELSE
    (IF kind = "Boolean" THEN "unibi_get_bool"
     ELSE IF kind = "Numeric" THEN "unibi_get_num"
     ELSE IF kind = "String" THEN "unibi_get_str"
     ELSE IF kind = "ExtBoolean" THEN "unibi_get_ext_bool"
     ELSE IF kind = "ExtNumeric" THEN "unibi_get_ext_num"
     ELSE "unibi_get_ext_str")

FixedName(op, kind) == op = "name" /\ kind \in {"Boolean", "Numeric", "String"}

NativeBool(kind, h, key) ==
  IF kind = "Boolean" THEN unibi_get_bool(h, key) ELSE unibi_get_ext_bool(h, key)

NativeNum(kind, h, key) ==
  IF kind = "Numeric" THEN unibi_get_num(h, key) ELSE unibi_get_ext_num(h, key)

C14_FreshQuery ==
  /\ \A v \in vecs : DOMAIN v = {"term", "kind", "keys"}
  /\ ret.op \in {"name", "value", "supported"} =>
       /\ calls = << [fn |-> QueryFn(ret.op, ret.kind),
                      h |-> IF FixedName(ret.op, ret.kind) THEN NULLH ELSE ret.term,
                      key |-> ret.key, arg |-> NoArg, r |-> NULLH] >>
       /\ ret.op = "supported" => ret.b = (NativeBool(ret.kind, ret.term, ret.key) > 0)
       /\ (ret.op = "value" /\ ret.kind \in {"Numeric", "ExtNumeric"}) =>
            ret.n = NativeNum(ret.kind, ret.term, ret.key)
       /\ (ret.op = "value" /\ ret.kind \in {"String", "ExtString"} /\ ret.err = "none") =>
            ret.s = NativeStr(ret.kind, ret.term, ret.key)
       /\ (ret.op = "name" /\ ret.err = "none") =>
            Some(ret.name) = NativeName(ret.kind, ret.term, ret.key)

(* value() twice on one Numeric accessor with a change of the handle in    *)
(* between: the second answer differs from the first and is the handle's   *)
(* value now                                                               *)
C14_Witness ==
  /\ ret.op = "value"
  /\ ret.kind = "Numeric"
  /\ SameCall(prev, ret.op, ret.kind, ret.key, ret.term)
  /\ prev.n # ret.n
  /\ ret.n = unibi_get_num(ret.term, ret.key)

(* ----------------------------------------------------------------------- *)
(* C15: as stated, name() of an accessor returned by ext_booleans(),       *)
(* ext_numerics() or ext_strings() never takes the fatal path, its index   *)
(* being less than the extended count of the handle when name() is called. *)
ExtKinds == {"ExtBoolean", "ExtNumeric", "ExtString"}

ExtNameCalled == ret.op = "name" /\ ret.kind \in ExtKinds

====
